---- MODULE Spec2Model ----
(***************************************************************************)
(* Model of azure_devops_mcp_server.py: the authenticated transport        *)
(* (_request), the Git helpers (_get_repo, _get_ref_object_id,             *)
(* _create_or_update_ref, _create_push, _create_pr) and the publish        *)
(* workflow azdo_update_file_and_create_pr, run by two concurrent          *)
(* invocations against one remote repository.  The remote API is the       *)
(* environment: it keeps refs, commits, pushes and pull requests and       *)
(* answers each request atomically, with optimistic concurrency on         *)
(* oldObjectId.                                                            *)
(***************************************************************************)
EXTENDS Integers, Sequences, FiniteSets, TLC

\* ------------------------------------------------------------------ bounds
\* Number of writes another actor (not the workflow) makes to the repository.
MaxActorOps == 1
\* Number of requests the remote side answers with a server fault.
MaxFaults == 1

\* -------------------------------------------------------- program constants
\* resp.status_code >= 400 is the transport's error threshold.
ErrorThreshold == 400
\* "0000000000000000000000000000000000000000": the all-zero object id.
ZeroObjectId == 0

\* The two invocations of the tool, sequential or overlapping.
Procs == {1, 2}

\* Caller-supplied arguments of azdo_update_file_and_create_pr: the usual
\* call with two different contents, an unknown repository, a base branch
\* that does not exist, and a working branch equal to the base branch.
Args(repo, base_branch, new_branch, new_content) ==
  [repo |-> repo, base_branch |-> base_branch, new_branch |-> new_branch,
   new_content |-> new_content]
ArgSets == {Args("repo", "main", "work", "x"), Args("repo", "main", "work", "y"),
            Args("nope", "main", "work", "x"), Args("repo", "gone", "work", "x"),
            Args("repo", "main", "main", "x")}

\* f"refs/heads/{branch}"
RefOf(branch) == "refs/heads/" \o branch

\* The refs of the remote repository, in the name order of a ref listing.
RefOrder == <<"refs/heads/gone", "refs/heads/main", "refs/heads/work">>
RefNames == {RefOrder[i] : i \in 1..Len(RefOrder)}

StartsWith(s, pre) == Len(pre) <= Len(s) /\ SubSeq(s, 1, Len(pre)) = pre

\* ------------------------------------------------------------- URL builders
RepoUrl(repo) == "/_apis/git/repositories/" \o repo
RefsFilterUrl(ref_name) == "/refs?filter=" \o ref_name
RefsUrl == "/refs"
PushesUrl == "/pushes"
PullRequestsUrl == "/pullrequests"

VARIABLES
  refs,       \* remote: ref name -> object id (ZeroObjectId: the ref is absent)
  commits,    \* remote: object id -> [parent, content]; ids are 1..Len(commits)
  pushes,     \* remote: pushId -> [name, newObjectId]
  prs,        \* remote: pullRequestId -> [sourceRefName, targetRefName]
  pc,         \* per invocation: the request the workflow issues next
  args,       \* per invocation: the caller's arguments
  repo_obj, base_object_id, existing_source_object_id, push,  \* workflow locals
  result,     \* per invocation: nothing yet, the returned dict, or the raised error
  log,        \* per invocation: the requests issued so far, with their outcome
  actorOps, faults,   \* counters of the bounds
  interfered, \* invocations during which someone else wrote to the repository
  faulted,    \* invocations that received a server fault
  lastWriter, \* who wrote to the repository last (0: nobody or another actor)
  tr          \* one transport call: its input and, once made, its outcome

vars == <<refs, commits, pushes, prs, pc, args, repo_obj, base_object_id,
          existing_source_object_id, push, result, log, actorOps,
          faults, interfered, faulted, lastWriter, tr>>

remoteVars == <<refs, commits, pushes, prs>>
localVars == <<repo_obj, base_object_id, existing_source_object_id, push>>

\* ---------------------------------------------------------------- transport
\* What requests.request returned: the status code, the body text, and what
\* resp.json() does with it (json.ok = FALSE: it raises).
JsonResp(status, val) ==
  [status |-> status, text |-> "{json}", json |-> [ok |-> TRUE, val |-> val]]
TextResp(status, text) ==
  [status |-> status, text |-> text, json |-> [ok |-> FALSE, val |-> ""]]

\* str.strip() on the body texts in use.
Strip(text) == IF text \in {"", " ", "\n"} THEN "" ELSE text

Raised(exc) == [raised |-> TRUE, exc |-> exc]
Returned(kind, value) == [raised |-> FALSE, kind |-> kind, value |-> value]

\* RuntimeError(f"Azure DevOps API error {status}\nURL: {url}\nResponse: {body}")
ApiError(status, url, body) ==
  [type |-> "RuntimeError", message |-> "Azure DevOps API error",
   status_code |-> status, url |-> url, body |-> body]

\* try: body = resp.json()  except Exception: body = resp.text
ErrorBody(resp) == IF resp.json.ok THEN resp.json.val ELSE resp.text

\* _request
RequestOffByOne(method, url, resp) ==
  IF resp.status > ErrorThreshold
    THEN Raised(ApiError(resp.status, url, ErrorBody(resp)))
    ELSE IF Strip(resp.text) = "" THEN Returned("none", "")
    ELSE IF resp.json.ok THEN Returned("json", resp.json.val)
    ELSE Returned("text", resp.text)

RequestNoBlankCheck(method, url, resp) ==
  IF resp.status >= ErrorThreshold
    THEN Raised(ApiError(resp.status, url, ErrorBody(resp)))
    ELSE IF resp.json.ok THEN Returned("json", resp.json.val)
    ELSE Returned("text", resp.text)

Request(method, url, resp) ==
  IF resp.status >= ErrorThreshold
    THEN Raised(ApiError(resp.status, url, ErrorBody(resp)))
    ELSE IF Strip(resp.text) = "" THEN Returned("none", "")
    ELSE IF resp.json.ok THEN Returned("json", resp.json.val)
    ELSE Returned("text", resp.text)

\* ------------------------------------------------------------ remote side
FaultResp == TextResp(500, "Internal Server Error")
ConflictResp == JsonResp(409, [message |-> "stale oldObjectId"])

SrvGetRepo(repo) ==
  IF repo = "repo"
    THEN JsonResp(200, [id |-> "repo-id", name |-> repo])
    ELSE JsonResp(404, [message |-> "repository not found"])

\* GET refs?filter=...: the existing refs whose name starts with the filter.
SrvListRefs(filter) ==
  LET names == SelectSeq(RefOrder,
                 LAMBDA n : refs[n] # ZeroObjectId /\ StartsWith(n, filter))
  IN JsonResp(200,
          [value |-> [i \in 1..Len(names) |->
                        [name |-> names[i], objectId |-> refs[names[i]]]]])

\* POST refs [{name, oldObjectId, newObjectId}]: applied only when oldObjectId
\* is the ref's current value (the zero id standing for "absent").
SrvRefUpdateAccepted(body) ==
  body.name \in RefNames /\ refs[body.name] = body.oldObjectId

\* POST pushes: one new commit on top of oldObjectId, accepted only when the
\* ref is at oldObjectId.
SrvPushAccepted(refUpdate) ==
  /\ refUpdate.name \in RefNames
  /\ refUpdate.oldObjectId # ZeroObjectId
  /\ refs[refUpdate.name] = refUpdate.oldObjectId

\* POST pullrequests: rejected for a branch onto itself, for a missing source
\* and for a source/target pair that already has an open pull request.
SrvPrAccepted(body) ==
  /\ body.sourceRefName # body.targetRefName
  /\ body.sourceRefName \in RefNames /\ refs[body.sourceRefName] # ZeroObjectId
  /\ \A i \in 1..Len(prs) :
       ~(prs[i].status = "active" /\ prs[i].sourceRefName = body.sourceRefName
                                   /\ prs[i].targetRefName = body.targetRefName)

\* ------------------------------------------------------------ the helpers
\* _get_repo
GetRepoNoRaise(repo, resp) ==
  LET r == Request("GET", RepoUrl(repo), resp)
  IN IF r.raised THEN Returned("json", [id |-> repo, name |-> repo]) ELSE r

GetRepo(repo, resp) == Request("GET", RepoUrl(repo), resp)

RefNotFound(ref_name) ==
  [type |-> "RuntimeError", message |-> "Ref not found", status_code |-> 0,
   url |-> RefsFilterUrl(ref_name), body |-> ref_name]

\* data.get("value") on a body that is not a JSON object
NoGetAttribute(url) ==
  [type |-> "AttributeError", message |-> "no attribute get", status_code |-> 0,
   url |-> url, body |-> ""]

\* _get_ref_object_id: the objectId of the first listed ref, "Ref not found"
\* when the listing is empty.
GetRefObjectId(ref_name, resp) ==
  LET r == Request("GET", RefsFilterUrl(ref_name), resp)
  IN IF r.raised THEN r
     ELSE IF r.kind # "json" THEN Raised(NoGetAttribute(RefsFilterUrl(ref_name)))
     ELSE IF Len(r.value.value) = 0 THEN Raised(RefNotFound(ref_name))
     ELSE Returned("json", r.value.value[1].objectId)

\* _create_or_update_ref, _create_push, _create_pr: one POST each.
CreateOrUpdateRef(resp) == Request("POST", RefsUrl, resp)
CreatePush(resp) == Request("POST", PushesUrl, resp)
CreatePrWrongUrl(resp) == Request("POST", PushesUrl, resp)
CreatePr(resp) == Request("POST", PullRequestsUrl, resp)

\* ------------------------------------------ request bodies of the workflow
RefBody(name, old, new) == [name |-> name, oldObjectId |-> old, newObjectId |-> new]

\* _create_or_update_ref(project, repo_id, source_ref, existing_source_object_id,
\*                       base_object_id)
UpdateRefBodyKeepTip(p) ==
  RefBody(RefOf(args[p].new_branch), existing_source_object_id[p],
          existing_source_object_id[p])
UpdateRefBody(p) ==
  RefBody(RefOf(args[p].new_branch), existing_source_object_id[p], base_object_id[p])

\* _create_or_update_ref(project, repo_id, source_ref, "000...0", base_object_id)
CreateRefBody(p) ==
  RefBody(RefOf(args[p].new_branch), ZeroObjectId, base_object_id[p])

\* ref_updates=[{"name": source_ref, "oldObjectId": base_object_id}],
\* commits=[{"comment": pr_title, "changes": [one "edit" of file_path]}]
PushBodyOntoBase(p) ==
  [refUpdates |-> <<[name |-> RefOf(args[p].base_branch),
                     oldObjectId |-> base_object_id[p]]>>,
   commits |-> <<[comment |-> "pr_title",
                  changes |-> <<[changeType |-> "edit", path |-> "file_path",
                                 content |-> args[p].new_content]>>]>>]
PushBodyOldSource(p) ==
  [refUpdates |-> <<[name |-> RefOf(args[p].new_branch),
                     oldObjectId |-> existing_source_object_id[p]]>>,
   commits |-> <<[comment |-> "pr_title",
                  changes |-> <<[changeType |-> "edit", path |-> "file_path",
                                 content |-> args[p].new_content]>>]>>]
PushBody(p) ==
  [refUpdates |-> <<[name |-> RefOf(args[p].new_branch),
                     oldObjectId |-> base_object_id[p]]>>,
   commits |-> <<[comment |-> "pr_title",
                  changes |-> <<[changeType |-> "edit", path |-> "file_path",
                                 content |-> args[p].new_content]>>]>>]

\* _create_pr(source_ref=source_ref, target_ref=base_ref, ...)
PrBodySwapped(p) ==
  [sourceRefName |-> RefOf(args[p].base_branch),
   targetRefName |-> RefOf(args[p].new_branch)]
PrBody(p) ==
  [sourceRefName |-> RefOf(args[p].new_branch),
   targetRefName |-> RefOf(args[p].base_branch)]

\* ------------------------------------------------------- workflow results
NoResult == [status |-> "none"]
RaisedResult(exc) == [status |-> "raised", exc |-> exc]

\* The dict azdo_update_file_and_create_pr returns.
SuccessDict(p, pr) ==
  [repo |-> [id |-> repo_obj[p].id, name |-> repo_obj[p].name],
   baseRef |-> RefOf(args[p].base_branch),
   sourceRef |-> RefOf(args[p].new_branch),
   pushId |-> push[p].pushId,
   pullRequestId |-> pr.pullRequestId,
   prUrl |-> pr.url,
   webUrl |-> pr.webUrl]

ReturnedResult(p, pr) == [status |-> "returned", value |-> SuccessDict(p, pr)]

\* ---------------------------------------------------------- bookkeeping
InFlight(q) == pc[q] \notin {"idle", "done"}
Others(p) == {q \in Procs \ {p} : InFlight(q)}
FaultChoices == IF faults < MaxFaults THEN {FALSE, TRUE} ELSE {FALSE}

Tip(name) == IF name \in RefNames THEN refs[name] ELSE ZeroObjectId

\* A request as the remote side saw it: the ref's tip before (cur) and after.
Entry(op, name, target, old, new, resp, ok, cur, after) ==
  [op |-> op, name |-> name, target |-> target, old |-> old, new |-> new,
   status |-> resp.status, ok |-> ok, cur |-> cur, after |-> after]

\* The push request as the remote side saw it, with the body that was sent.
PushEntry(body, new, resp, ok, cur, after) ==
  [op |-> "push", name |-> body.refUpdates[1].name, target |-> "",
   old |-> body.refUpdates[1].oldObjectId, new |-> new,
   status |-> resp.status, ok |-> ok, cur |-> cur, after |-> after,
   body |-> body]

NoRepo == [id |-> "", name |-> ""]
NoPush == [pushId |-> 0]
NoArgs == Args("repo", "main", "work", "x")

NoteFault(p, f) ==
  /\ faults' = IF f THEN faults + 1 ELSE faults
  /\ faulted' = IF f THEN faulted \cup {p} ELSE faulted

NoteWrite(p, accepted) ==
  /\ interfered' = IF accepted THEN interfered \cup Others(p) ELSE interfered
  /\ lastWriter' = IF accepted THEN p ELSE lastWriter

\* ------------------------------------------------------------------- Init
InitRemote(W) ==
  /\ commits = <<[parent |-> ZeroObjectId, content |-> "old"],
                 [parent |-> 1, content |-> "stale"]>>
  /\ \E w \in W :
       refs = [n \in RefNames |->
                 IF n = "refs/heads/main" THEN 1
                 ELSE IF n = "refs/heads/work" THEN w ELSE ZeroObjectId]
  /\ pushes = <<>>
  /\ prs = <<>>

InitLocal ==
  /\ pc = [p \in Procs |-> "idle"]
  /\ args = [p \in Procs |-> NoArgs]
  /\ repo_obj = [p \in Procs |-> NoRepo]
  /\ base_object_id = [p \in Procs |-> ZeroObjectId]
  /\ existing_source_object_id = [p \in Procs |-> ZeroObjectId]
  /\ push = [p \in Procs |-> NoPush]
  /\ result = [p \in Procs |-> NoResult]
  /\ log = [p \in Procs |-> <<>>]
  /\ actorOps = 0 /\ faults = 0
  /\ interfered = {} /\ faulted = {} /\ lastWriter = 0

\* The working branch is absent, at the base tip, or at a commit of its own.
Init == InitRemote({ZeroObjectId, 1, 2}) /\ InitLocal /\ tr = [phase |-> "unused"]

\* ---------------------------------------------------------------- actions
\* The tool is invoked with arguments a.
Start(p) ==
  /\ pc[p] = "idle"
  /\ p = 1 \/ pc[1] # "idle"   \* the invocations are interchangeable: 1 goes first
  /\ \E a \in ArgSets : args' = [args EXCEPT ![p] = a]
  /\ pc' = [pc EXCEPT ![p] = "get_repo"]
  /\ UNCHANGED <<remoteVars, localVars, result, log, actorOps, faults,
                 interfered, faulted, lastWriter, tr>>

\* repo_obj = _get_repo(project, repo); repo_id = repo_obj["id"]
DoGetRepo(p) ==
  /\ pc[p] = "get_repo"
  /\ \E f \in FaultChoices :
       LET resp == IF f THEN FaultResp ELSE SrvGetRepo(args[p].repo)
           r == GetRepo(args[p].repo, resp)
       IN /\ log' = [log EXCEPT ![p] = Append(@,
                       Entry("get_repo", args[p].repo, "", 0, 0, resp, ~r.raised, 0, 0))]
          /\ IF r.raised
               THEN /\ result' = [result EXCEPT ![p] = RaisedResult(r.exc)]
                    /\ pc' = [pc EXCEPT ![p] = "done"]
                    /\ UNCHANGED repo_obj
               ELSE /\ repo_obj' = [repo_obj EXCEPT ![p] = r.value]
                    /\ pc' = [pc EXCEPT ![p] = "get_base"]
                    /\ UNCHANGED result
          /\ NoteFault(p, f)
  /\ UNCHANGED <<remoteVars, args, base_object_id, existing_source_object_id,
                 push, actorOps, interfered, lastWriter, tr>>

\* base_object_id = _get_ref_object_id(project, repo_id, base_ref)
DoGetBase(p) ==
  /\ pc[p] = "get_base"
  /\ \E f \in FaultChoices :
       LET name == RefOf(args[p].base_branch)
           resp == IF f THEN FaultResp ELSE SrvListRefs(name)
           r == GetRefObjectId(name, resp)
       IN /\ log' = [log EXCEPT ![p] = Append(@,
                       Entry("get_ref", name, "", 0, 0, resp, ~r.raised,
                             Tip(name), Tip(name)))]
          /\ IF r.raised
               THEN /\ result' = [result EXCEPT ![p] = RaisedResult(r.exc)]
                    /\ pc' = [pc EXCEPT ![p] = "done"]
                    /\ UNCHANGED base_object_id
               ELSE /\ base_object_id' = [base_object_id EXCEPT ![p] = r.value]
                    /\ pc' = [pc EXCEPT ![p] = "get_source"]
                    /\ UNCHANGED result
          /\ NoteFault(p, f)
  /\ UNCHANGED <<remoteVars, args, repo_obj, existing_source_object_id,
                 push, actorOps, interfered, lastWriter, tr>>

\* try: existing_source_object_id = _get_ref_object_id(project, repo_id, source_ref)
\* any exception leads to the except branch.
DoGetSource(p) ==
  /\ pc[p] = "get_source"
  /\ \E f \in FaultChoices :
       LET name == RefOf(args[p].new_branch)
           resp == IF f THEN FaultResp ELSE SrvListRefs(name)
           r == GetRefObjectId(name, resp)
       IN /\ log' = [log EXCEPT ![p] = Append(@,
                       Entry("get_ref", name, "", 0, 0, resp, ~r.raised,
                             Tip(name), Tip(name)))]
          /\ IF r.raised
               THEN /\ pc' = [pc EXCEPT ![p] = "create_ref"]
                    /\ UNCHANGED existing_source_object_id
               ELSE /\ existing_source_object_id' =
                         [existing_source_object_id EXCEPT ![p] = r.value]
                    /\ pc' = [pc EXCEPT ![p] = "update_ref"]
          /\ NoteFault(p, f)
  /\ UNCHANGED <<remoteVars, args, repo_obj, base_object_id, push, result,
                 actorOps, interfered, lastWriter, tr>>

\* The remote side's answer to POST refs, and its effect.
RefWriteResp(body, f) ==
  IF f THEN FaultResp
  ELSE IF SrvRefUpdateAccepted(body)
    THEN JsonResp(200, [value |-> <<[name |-> body.name, success |-> TRUE]>>])
    ELSE ConflictResp

RefWrite(p, op, body, f) ==
  LET accepted == ~f /\ SrvRefUpdateAccepted(body)
      resp == RefWriteResp(body, f)
      r == CreateOrUpdateRef(resp)
      after == IF accepted THEN body.newObjectId ELSE Tip(body.name)
  IN /\ refs' = IF accepted THEN [refs EXCEPT ![body.name] = body.newObjectId]
                ELSE refs
     /\ log' = [log EXCEPT ![p] = Append(@,
                  Entry(op, body.name, "", body.oldObjectId, body.newObjectId,
                        resp, ~r.raised, Tip(body.name), after))]
     /\ NoteWrite(p, accepted)
     /\ NoteFault(p, f)

\* Still inside the try: _create_or_update_ref(..., existing_source_object_id,
\* base_object_id); an exception leads to the except branch.
DoUpdateRef(p) ==
  /\ pc[p] = "update_ref"
  /\ \E f \in FaultChoices :
       /\ RefWrite(p, "update_ref", UpdateRefBody(p), f)
       /\ pc' = [pc EXCEPT ![p] =
                   IF CreateOrUpdateRef(RefWriteResp(UpdateRefBody(p), f)).raised
                     THEN "create_ref" ELSE "push"]
  /\ UNCHANGED <<commits, pushes, prs, args, localVars, result, actorOps, tr>>

\* except Exception: _create_or_update_ref(..., "000...0", base_object_id);
\* an exception here leaves the workflow.
DoCreateRef(p) ==
  /\ pc[p] = "create_ref"
  /\ \E f \in FaultChoices :
       LET r == CreateOrUpdateRef(RefWriteResp(CreateRefBody(p), f))
       IN /\ RefWrite(p, "create_ref", CreateRefBody(p), f)
          /\ IF r.raised
               THEN /\ pc' = [pc EXCEPT ![p] = "done"]
                    /\ result' = [result EXCEPT ![p] = RaisedResult(r.exc)]
               ELSE /\ pc' = [pc EXCEPT ![p] = "push"]
                    /\ UNCHANGED result
  /\ UNCHANGED <<commits, pushes, prs, args, localVars, actorOps, tr>>

\* push = _create_push(...)
DoPush(p) ==
  /\ pc[p] = "push"
  /\ \E f \in FaultChoices :
       LET body == PushBody(p)
           ru == body.refUpdates[1]
           accepted == ~f /\ SrvPushAccepted(ru)
           newId == Len(commits) + 1
           pushId == Len(pushes) + 1
           resp == IF f THEN FaultResp
                   ELSE IF accepted
                     THEN JsonResp(201,
                            [pushId |-> pushId,
                             refUpdates |-> <<[name |-> ru.name,
                                               oldObjectId |-> ru.oldObjectId,
                                               newObjectId |-> newId]>>])
                     ELSE ConflictResp
           r == CreatePush(resp)
       IN /\ IF accepted
               THEN /\ commits' = Append(commits,
                         [parent |-> ru.oldObjectId,
                          content |-> body.commits[1].changes[1].content])
                    /\ refs' = [refs EXCEPT ![ru.name] = newId]
                    /\ pushes' = Append(pushes, [name |-> ru.name, newObjectId |-> newId])
               ELSE UNCHANGED <<commits, refs, pushes>>
          /\ log' = [log EXCEPT ![p] = Append(@,
                       PushEntry(body,
                             IF accepted THEN newId ELSE ZeroObjectId, resp,
                             ~r.raised, Tip(ru.name),
                             IF accepted THEN newId ELSE Tip(ru.name)))]
          /\ IF r.raised
               THEN /\ pc' = [pc EXCEPT ![p] = "done"]
                    /\ result' = [result EXCEPT ![p] = RaisedResult(r.exc)]
                    /\ UNCHANGED push
               ELSE /\ pc' = [pc EXCEPT ![p] = "create_pr"]
                    /\ push' = [push EXCEPT ![p] = r.value]
                    /\ UNCHANGED result
          /\ NoteWrite(p, accepted)
          /\ NoteFault(p, f)
  /\ UNCHANGED <<prs, args, repo_obj, base_object_id, existing_source_object_id,
                 actorOps, tr>>

\* pr = _create_pr(...), then the return statement.
DoCreatePrRollback(p) ==
  /\ pc[p] = "create_pr"
  /\ \E f \in FaultChoices :
       LET body == PrBody(p)
           accepted == ~f /\ SrvPrAccepted(body)
           prId == Len(prs) + 1
           resp == IF f THEN FaultResp
                   ELSE IF accepted
                     THEN JsonResp(201,
                            [pullRequestId |-> prId,
                             url |-> <<PullRequestsUrl, prId>>,
                             webUrl |-> <<"web", prId>>])
                     ELSE IF body.sourceRefName = body.targetRefName
                       THEN JsonResp(400, [message |-> "source equals target"])
                       ELSE JsonResp(409, [message |-> "an active pull request exists"])
           r == CreatePr(resp)
       IN /\ prs' = IF accepted
                      THEN Append(prs, [sourceRefName |-> body.sourceRefName,
                                        targetRefName |-> body.targetRefName,
                                        status |-> "active"])
                      ELSE prs
          /\ refs' = IF r.raised /\ body.sourceRefName \in RefNames
                       THEN [refs EXCEPT ![body.sourceRefName] = ZeroObjectId]
                       ELSE refs
          /\ log' = [log EXCEPT ![p] = Append(@,
                       Entry("create_pr", body.sourceRefName, body.targetRefName,
                             0, 0, resp, ~r.raised,
                             Tip(body.sourceRefName), Tip(body.sourceRefName)))]
          /\ result' = [result EXCEPT ![p] =
                          IF r.raised THEN RaisedResult(r.exc)
                          ELSE ReturnedResult(p, r.value)]
          /\ pc' = [pc EXCEPT ![p] = "done"]
          /\ NoteWrite(p, accepted)
          /\ NoteFault(p, f)
  /\ UNCHANGED <<commits, pushes, args, localVars, actorOps, tr>>
\* pr = _create_pr(...), then the return statement.
DoCreatePr(p) ==
  /\ pc[p] = "create_pr"
  /\ \E f \in FaultChoices :
       LET body == PrBody(p)
           accepted == ~f /\ SrvPrAccepted(body)
           prId == Len(prs) + 1
           resp == IF f THEN FaultResp
                   ELSE IF accepted
                     THEN JsonResp(201,
                            [pullRequestId |-> prId,
                             url |-> <<PullRequestsUrl, prId>>,
                             webUrl |-> <<"web", prId>>])
                     ELSE IF body.sourceRefName = body.targetRefName
                       THEN JsonResp(400, [message |-> "source equals target"])
                       ELSE JsonResp(409, [message |-> "an active pull request exists"])
           r == CreatePr(resp)
       IN /\ prs' = IF accepted
                      THEN Append(prs, [sourceRefName |-> body.sourceRefName,
                                        targetRefName |-> body.targetRefName,
                                        status |-> "active"])
                      ELSE prs
          /\ log' = [log EXCEPT ![p] = Append(@,
                       Entry("create_pr", body.sourceRefName, body.targetRefName,
                             0, 0, resp, ~r.raised,
                             Tip(body.sourceRefName), Tip(body.sourceRefName)))]
          /\ result' = [result EXCEPT ![p] =
                          IF r.raised THEN RaisedResult(r.exc)
                          ELSE ReturnedResult(p, r.value)]
          /\ pc' = [pc EXCEPT ![p] = "done"]
          /\ NoteWrite(p, accepted)
          /\ NoteFault(p, f)
  /\ UNCHANGED <<refs, commits, pushes, args, localVars, actorOps, tr>>

\* Another actor pushes a commit of its own onto the working branch.
ActorMove ==
  /\ actorOps < MaxActorOps
  /\ commits' = Append(commits, [parent |-> refs["refs/heads/main"], content |-> "z"])
  /\ refs' = [refs EXCEPT !["refs/heads/work"] = Len(commits) + 1]
  /\ actorOps' = actorOps + 1
  /\ interfered' = interfered \cup {q \in Procs : InFlight(q)}
  /\ lastWriter' = 0
  /\ UNCHANGED <<pushes, prs, pc, args, localVars, result, log, faults,
                 faulted, tr>>

\* Another actor deletes the working branch, abandoning its pull requests.
ActorDelete ==
  /\ actorOps < MaxActorOps
  /\ refs["refs/heads/work"] # ZeroObjectId
  /\ refs' = [refs EXCEPT !["refs/heads/work"] = ZeroObjectId]
  /\ prs' = [i \in 1..Len(prs) |->
               IF prs[i].sourceRefName = "refs/heads/work"
                 THEN [prs[i] EXCEPT !.status = "abandoned"] ELSE prs[i]]
  /\ actorOps' = actorOps + 1
  /\ interfered' = interfered \cup {q \in Procs : InFlight(q)}
  /\ lastWriter' = 0
  /\ UNCHANGED <<commits, pushes, pc, args, localVars, result, log, faults,
                 faulted, tr>>

Next ==
  \/ \E p \in Procs : Start(p)
  \/ \E p \in Procs : DoGetRepo(p)
  \/ \E p \in Procs : DoGetBase(p)
  \/ \E p \in Procs : DoGetSource(p)
  \/ \E p \in Procs : DoUpdateRef(p)
  \/ \E p \in Procs : DoCreateRef(p)
  \/ \E p \in Procs : DoPush(p)
  \/ \E p \in Procs : DoCreatePr(p)
  \/ ActorMove
  \/ ActorDelete

Spec == Init /\ [][Next]_vars

\* ------------------------------------------------- the transport on its own
TStatuses == {200, 201, 204, 300, 304, 399, 400, 401, 404, 409, 500, 503}
TResponses ==
  {JsonResp(st, [message |-> "m"]) : st \in TStatuses}
    \cup {TextResp(st, t) : st \in TStatuses, t \in {"", " ", "<html>"}}
TUrls == {RepoUrl("repo"), RefsUrl, PullRequestsUrl}

TInit ==
  /\ InitRemote({ZeroObjectId}) /\ InitLocal
  /\ tr \in [phase : {"input"}, method : {"GET", "POST"}, url : TUrls,
             resp : TResponses]

\* One call of _request on the response tr.resp.
TransportCall ==
  /\ tr.phase = "input"
  /\ tr' = [phase |-> "called", method |-> tr.method, url |-> tr.url,
            resp |-> tr.resp, out |-> Request(tr.method, tr.url, tr.resp)]
  /\ UNCHANGED <<remoteVars, pc, args, localVars, result, log, actorOps, faults,
                 interfered, faulted, lastWriter>>

TNext == TransportCall

SpecTransport == TInit /\ [][TNext]_vars

\* ===================================================================== claims
Done(p) == pc[p] = "done"
Succeeded(p) == result[p].status = "returned"
Failed(p) == result[p].status = "raised"
\* Nobody else wrote to the repository while p ran, and no request of p met a
\* server fault.
Undisturbed(p) == p \notin interfered /\ p \notin faulted
SourceRef(p) == RefOf(args[p].new_branch)
BaseRef(p) == RefOf(args[p].base_branch)
OpsOf(p) == [i \in 1..Len(log[p]) |-> log[p][i].op]
RefWriteOps == {"update_ref", "create_ref"}

\* The repository and the base branch resolved, and the working branch was
\* looked up and found absent.
FreshBranchRun(p) ==
  /\ Len(log[p]) >= 3
  /\ log[p][1].ok /\ log[p][2].ok
  /\ ~log[p][3].ok /\ log[p][3].cur = ZeroObjectId

\* C1: an undisturbed invocation that finds repository and base branch and no
\* working branch creates the branch at the base tip (zero id -> base tip),
\* pushes exactly one commit on top of it, asks for exactly one pull request
\* source = working branch, target = base branch, and returns a dict with a
\* pull request id and url.
C1_FreshBranchPublished ==
  \A p \in Procs :
    (Done(p) /\ Undisturbed(p) /\ FreshBranchRun(p)) =>
      LET l == log[p]
          B == l[2].cur
      IN /\ OpsOf(p) = <<"get_repo", "get_ref", "get_ref", "create_ref", "push",
                         "create_pr">>
         /\ l[4].name = SourceRef(p) /\ l[4].old = ZeroObjectId /\ l[4].new = B
         /\ l[4].ok /\ l[4].cur = ZeroObjectId /\ l[4].after = B
         /\ l[5].name = SourceRef(p) /\ l[5].old = B /\ l[5].cur = B /\ l[5].ok
         /\ l[5].after \in 1..Len(commits)
         /\ l[5].after \notin {B, ZeroObjectId}
         /\ commits[l[5].after] = [parent |-> B, content |-> args[p].new_content]
         /\ l[6].name = SourceRef(p) /\ l[6].target = BaseRef(p) /\ l[6].ok
         /\ l[6].name # l[6].target
         /\ Succeeded(p)
         /\ result[p].value.pullRequestId \in 1..Len(prs)
         /\ prs[result[p].value.pullRequestId].sourceRefName = SourceRef(p)
         /\ prs[result[p].value.pullRequestId].targetRefName = BaseRef(p)
         /\ Len(result[p].value.prUrl) > 0
         /\ result[p].value.pushId \in 1..Len(pushes)

C1_Witness ==
  \E p \in Procs :
    /\ Done(p) /\ Undisturbed(p) /\ FreshBranchRun(p) /\ Succeeded(p)
    /\ result[p].value.pullRequestId = 1

\* The working branch was found at a commit other than the base tip.
StaleBranchRun(p) ==
  /\ Len(log[p]) >= 3
  /\ log[p][1].ok /\ log[p][2].ok /\ log[p][3].ok
  /\ log[p][3].cur # log[p][2].cur

\* The push of p went through.
Pushed(p) == Len(log[p]) >= 5 /\ log[p][5].op = "push" /\ log[p][5].ok

\* C2: an undisturbed invocation that finds the working branch at C # B
\* resets it to the base tip B before pushing; and the branch content an
\* undisturbed invocation leaves (parent commit and file content of the tip it
\* pushed) is the same for every invocation with the same base tip, branch
\* and new content, whatever ran before it.
C2_ResetThenSameContent ==
  /\ \A p \in Procs :
       (Done(p) /\ Undisturbed(p) /\ StaleBranchRun(p)) =>
         LET l == log[p]
             B == l[2].cur
             C == l[3].cur
         IN /\ l[4].op = "update_ref" /\ l[4].name = SourceRef(p)
            /\ l[4].old = C /\ l[4].new = B /\ l[4].ok /\ l[4].after = B
            /\ Pushed(p) /\ l[5].cur = B /\ l[5].old = B
            /\ commits[l[5].after] = [parent |-> B, content |-> args[p].new_content]
  /\ \A p, q \in Procs :
       (/\ Done(p) /\ Done(q) /\ Undisturbed(p) /\ Undisturbed(q)
        /\ Pushed(p) /\ Pushed(q)
        /\ SourceRef(p) = SourceRef(q)
        /\ log[p][2].cur = log[q][2].cur
        /\ args[p].new_content = args[q].new_content)
         => commits[log[p][5].after] = commits[log[q][5].after]

\* The second invocation found the branch where the first one's push left it,
\* reset it and pushed the same content again.
C2_Witness ==
  /\ Done(1) /\ Done(2) /\ Undisturbed(1) /\ Undisturbed(2)
  /\ Pushed(1) /\ Pushed(2)
  /\ StaleBranchRun(2) /\ log[2][3].cur = log[1][5].after
  /\ args[1].new_content = args[2].new_content
  /\ log[1][5].after # log[2][5].after
  /\ commits[log[1][5].after] = commits[log[2][5].after]

Last(p) == log[p][Len(log[p])]
WriteOps == {"update_ref", "create_ref", "push", "create_pr"}

\* C3 (as claimed): a ref-update whose oldObjectId is not the branch's current
\* value is rejected, the invocation issues no further ref write, push or
\* pull-request request, and it ends with a ConcurrencyConflictError.
C3_RejectedUpdateAborts ==
  \A p \in Procs : \A i \in 1..Len(log[p]) :
    (log[p][i].op = "update_ref" /\ log[p][i].old # log[p][i].cur) =>
      /\ ~log[p][i].ok
      /\ \A j \in (i+1)..Len(log[p]) : log[p][j].op \notin WriteOps
      /\ Done(p) => (Failed(p) /\ result[p].exc.type = "ConcurrencyConflictError")

\* The pull-request request of p was answered with an error after p's push
\* had gone through.
PrRejectedAfterPush(p) ==
  /\ Done(p) /\ Len(log[p]) >= 2
  /\ Last(p).op = "create_pr" /\ Last(p).status >= ErrorThreshold
  /\ log[p][Len(log[p]) - 1].op = "push" /\ log[p][Len(log[p]) - 1].status < ErrorThreshold

ErrorFields == {"type", "message", "status_code", "url", "body"}

\* C4 (as claimed): the failure reported after a rejected pull request
\* carries the pushId of the completed push.
C4_FailureCarriesPushId ==
  \A p \in Procs :
    PrRejectedAfterPush(p) =>
      /\ Failed(p)
      /\ "pushId" \in DOMAIN result[p].exc
      /\ result[p].exc.pushId \in 1..Len(pushes)

\* C4 (amended): the failure reported after a rejected pull request is the
\* transport's RuntimeError for the pull-request request (status, URL, body)
\* and nothing else: it has no pushId, while the push stays applied remotely.
C4_FailureIsPrErrorOnly ==
  \A p \in Procs :
    PrRejectedAfterPush(p) =>
      /\ Failed(p)
      /\ result[p].exc.type = "RuntimeError"
      /\ result[p].exc.status_code = Last(p).status
      /\ result[p].exc.url = PullRequestsUrl
      /\ DOMAIN result[p].exc = ErrorFields
      /\ \E k \in 1..Len(pushes) :
           /\ pushes[k].name = log[p][Len(log[p]) - 1].name
           /\ pushes[k].newObjectId = log[p][Len(log[p]) - 1].after

\* Scenario D: the second invocation pushed, and its pull request was refused
\* because the first one's is still open.
C4_Witness ==
  /\ PrRejectedAfterPush(2) /\ Last(2).status = 409 /\ Succeeded(1)
  /\ Len(pushes) = 2

\* The repository lookup of p was answered "not found".
RepoNotFound(p) ==
  Done(p) /\ Len(log[p]) >= 1 /\ log[p][1].op = "get_repo" /\ log[p][1].status = 404

\* C5 (as claimed): an unknown repository makes the workflow fail at step 1
\* with a NotFoundError after exactly one request.
C5_NotFoundErrorOneCall ==
  \A p \in Procs :
    RepoNotFound(p) =>
      /\ Failed(p) /\ result[p].exc.type = "NotFoundError"
      /\ Len(log[p]) = 1

\* C5 (amended): an unknown repository makes the workflow fail at step 1 with
\* the transport's RuntimeError carrying status 404 and the repository URL,
\* after exactly one request: none to the refs, pushes or pull-request
\* endpoints.
C5_RepoErrorOneCall ==
  \A p \in Procs :
    RepoNotFound(p) =>
      /\ Failed(p) /\ result[p].exc.type = "RuntimeError"
      /\ result[p].exc.status_code = 404
      /\ result[p].exc.url = RepoUrl(args[p].repo)
      /\ Len(log[p]) = 1
      /\ \A i \in 1..Len(log[p]) : log[p][i].op \notin (WriteOps \cup {"get_ref"})

C5_Witness ==
  \E p \in Procs : RepoNotFound(p) /\ args[p].repo = "nope" /\ Failed(p)

\* C6 (as claimed): no pull-request request names the same ref as source and
\* as target.
C6_SourceDiffersFromTarget ==
  \A p \in Procs : \A i \in 1..Len(log[p]) :
    log[p][i].op = "create_pr" => log[p][i].name # log[p][i].target

\* The requests before the i-th one of p that told p where ref log[p][i].name
\* is: a lookup of it, or a write to it that was accepted.
Informative(p, i) ==
  {j \in 1..(i-1) : /\ log[p][j].name = log[p][i].name
                    /\ log[p][j].op # "get_repo"
                    /\ (log[p][j].op = "get_ref" \/ log[p][j].ok)}

\* The value p observed most recently for that ref (the zero id: not found).
Observed(p, i) ==
  LET j == CHOOSE k \in Informative(p, i) : \A m \in Informative(p, i) : m <= k
  IN IF log[p][j].op = "get_ref"
       THEN (IF log[p][j].ok THEN log[p][j].cur ELSE ZeroObjectId)
       ELSE log[p][j].after

GuardedOps == {"update_ref", "create_ref", "push"}

\* The error a rejected ref write or push is reported with: the transport's
\* error for the conflict status.
ConflictStatus == ConflictResp.status

\* C7 (as claimed, the conflict error being the error raised for the remote
\* side's conflict answer, whatever its type is called): with the two
\* invocations alone on the repository, every oldObjectId sent in a ref write
\* or push is the value the invocation observed most recently for that ref; a
\* request whose oldObjectId is not the current tip is rejected and leaves the
\* branch as it is; and an invocation that met such a rejection ends in
\* failure with the conflict error.
C7_OptimisticConcurrency ==
  (actorOps = 0 /\ faults = 0) =>
    \A p \in Procs :
      /\ \A i \in 1..Len(log[p]) :
           log[p][i].op \in GuardedOps =>
             /\ Informative(p, i) # {}
             /\ log[p][i].old = Observed(p, i)
             /\ (log[p][i].old # log[p][i].cur) =>
                  (~log[p][i].ok /\ log[p][i].after = log[p][i].cur)
      /\ (Done(p) /\ \E i \in 1..Len(log[p]) :
                       log[p][i].op \in GuardedOps /\ log[p][i].old # log[p][i].cur)
           => (Failed(p) /\ result[p].exc.status_code = ConflictStatus)

\* The working-branch lookup answered that the ref does not exist: the listing
\* came back without an error status and held no ref.
ReportedNotFound(e) ==
  e.op = "get_ref" /\ ~e.ok /\ e.status < ErrorThreshold

\* A request of the workflow that failed: it was answered with an error
\* status, or the helper that sent it raised. The working-branch lookup
\* reporting "not found" is the one outcome that is not a failure; it selects
\* the creation of the branch.
StepFailed(p, i) ==
  /\ log[p][i].status >= ErrorThreshold \/ ~log[p][i].ok
  /\ ~(i = 3 /\ ReportedNotFound(log[p][i]))

\* C8 (as claimed): the workflow returns its dict only after repository
\* lookup, base lookup, the working-branch ref write, the push and the
\* pull-request creation each completed without error, in that order; a failed
\* request is the invocation's last request and its outcome (no request of a
\* later step follows it, the failure is never caught and continued from);
\* nothing is requested when the repository or the base branch does not
\* resolve; a push directly follows a ref write that was accepted, a
\* pull-request request directly follows a push that was accepted.
C8_AllOrNothing ==
  \A p \in Procs :
    LET l == log[p]
        n == Len(l)
    IN /\ \A i \in 1..n :
            StepFailed(p, i) => (i = n /\ Done(p) /\ Failed(p))
       /\ n >= 1 => l[1].op = "get_repo"
       /\ n >= 2 => (l[1].ok /\ l[1].status = 200 /\ l[2].op = "get_ref"
                     /\ l[2].name = BaseRef(p))
       /\ n >= 3 => (l[2].ok /\ l[2].status = 200 /\ l[2].cur # ZeroObjectId
                     /\ l[3].op = "get_ref" /\ l[3].name = SourceRef(p))
       /\ \A i \in 1..n :
            /\ l[i].op \in WriteOps => i >= 4
            /\ l[i].op = "push" =>
                 (l[i-1].op \in RefWriteOps /\ l[i-1].ok /\ l[i-1].status = 200
                  /\ l[i-1].after = l[i-1].new)
            /\ l[i].op = "create_pr" =>
                 (l[i-1].op = "push" /\ l[i-1].ok /\ l[i-1].status = 201
                  /\ l[i-1].after = l[i-1].new)
       /\ Succeeded(p) =>
            (Done(p) /\ n >= 6 /\ l[n].op = "create_pr" /\ l[n].ok
             /\ l[n].status = 201
             /\ Cardinality({i \in 1..n : l[i].op = "push"}) = 1
             /\ Cardinality({i \in 1..n : l[i].op = "create_pr"}) = 1)
       /\ Failed(p) => (Done(p) /\ n >= 1 /\ StepFailed(p, n))

\* What the Ref Resolver returns for p's working branch now.
ReadBack(p) == GetRefObjectId(SourceRef(p), SrvListRefs(SourceRef(p)))

\* p returned its dict and nobody else has written to the repository since p
\* started.
QuietSuccess(p) == Succeeded(p) /\ p \notin interfered /\ lastWriter = p

\* C9 (as claimed): the dict the workflow returns reports the object id of
\* its push, and reading the working branch back gives that object id.
C9_ResultObjectIdReadBack ==
  \A p \in Procs :
    QuietSuccess(p) =>
      /\ ~ReadBack(p).raised
      /\ "objectId" \in DOMAIN result[p].value
      /\ result[p].value.objectId = ReadBack(p).value

ResultFields ==
  {"repo", "baseRef", "sourceRef", "pushId", "pullRequestId", "prUrl", "webUrl"}

\* C9 (amended): the dict the workflow returns reports the pushId only, no
\* object id; reading the working branch back gives the newObjectId of the
\* push with that pushId, a commit on top of the base tip carrying the new
\* content.
C9_PushIdReadBack ==
  \A p \in Procs :
    QuietSuccess(p) =>
      /\ ~ReadBack(p).raised
      /\ DOMAIN result[p].value = ResultFields
      /\ result[p].value.pushId \in 1..Len(pushes)
      /\ pushes[result[p].value.pushId].name = SourceRef(p)
      /\ pushes[result[p].value.pushId].newObjectId = ReadBack(p).value
      /\ commits[ReadBack(p).value] =
           [parent |-> log[p][2].cur, content |-> args[p].new_content]

C9_Witness ==
  \E p \in Procs :
    /\ QuietSuccess(p) /\ result[p].value.pushId = 2
    /\ ReadBack(p).value = pushes[2].newObjectId

\* C10 (as claimed): every response with a status outside 200..299 is raised
\* as an error carrying status, URL and body.
C10_Non2xxRaised ==
  (tr.phase = "called" /\ (tr.resp.status < 200 \/ tr.resp.status > 299)) =>
    /\ tr.out.raised
    /\ tr.out.exc.status_code = tr.resp.status
    /\ tr.out.exc.url = tr.url

\* C10 (amended): every response with status >= 400 is raised as a
\* RuntimeError carrying the status, the URL and the body (the parsed JSON, or
\* the text when it is not JSON); every response with a status below 400, the
\* 3xx ones included, is returned to the caller as a result.
C10_From400Raised ==
  tr.phase = "called" =>
    /\ tr.resp.status >= 400 =>
         /\ tr.out.raised
         /\ tr.out.exc.type = "RuntimeError"
         /\ tr.out.exc.status_code = tr.resp.status
         /\ tr.out.exc.url = tr.url
         /\ IF tr.resp.json.ok THEN tr.out.exc.body = tr.resp.json.val
                               ELSE tr.out.exc.body = tr.resp.text
    /\ tr.resp.status < 400 => ~tr.out.raised

\* A response with status 400 and a JSON body was raised as an error that
\* carries the parsed body.
C10_Witness ==
  /\ tr.phase = "called"
  /\ tr.resp.status = 400 /\ tr.out.raised /\ tr.resp.json.ok
  /\ tr.out.exc.body = tr.resp.json.val

\* A successful (2xx) response went through _request.
Called2xx == tr.phase = "called" /\ tr.resp.status \in 200..299

\* C11 (as claimed): for a 2xx response a blank body gives None, a JSON body
\* gives the parsed value, and a non-blank body that is not JSON gives a
\* MalformedResponseError, never a returned value.
C11_MalformedBodyRaises ==
  Called2xx =>
    IF Strip(tr.resp.text) = ""
      THEN ~tr.out.raised /\ tr.out.kind = "none"
    ELSE IF tr.resp.json.ok
      THEN ~tr.out.raised /\ tr.out.kind = "json" /\ tr.out.value = tr.resp.json.val
    ELSE tr.out.raised /\ tr.out.exc.type = "MalformedResponseError"

\* C11 (amended): for a 2xx response a blank body gives None, a JSON body
\* gives the parsed value, and a non-blank body that is not JSON is returned
\* to the caller as its raw text; none of the three raises.
C11_MalformedBodyReturnedAsText ==
  Called2xx =>
    /\ ~tr.out.raised
    /\ IF Strip(tr.resp.text) = ""
         THEN tr.out.kind = "none"
       ELSE IF tr.resp.json.ok
         THEN tr.out.kind = "json" /\ tr.out.value = tr.resp.json.val
       ELSE tr.out.kind = "text" /\ tr.out.value = tr.resp.text

\* A 200 response with an HTML body came back as that text.
C11_Witness ==
  /\ Called2xx /\ tr.resp.status = 200 /\ tr.resp.text = "<html>"
  /\ ~tr.resp.json.ok /\ ~tr.out.raised /\ tr.out.kind = "text"

\* C12 (as claimed): the zero-id creation request (old = zero id, new = base
\* object id) is issued only when the lookup of the working branch reported
\* "not found"; when the lookup succeeded, a single ref update is issued with
\* old = the value looked up and new = the base object id; when the lookup or
\* the update fails for any other reason, no zero-id creation is issued.
C12_CreationOnlyWhenNotFound ==
  \A p \in Procs :
    LET l == log[p]
    IN \A i \in 1..Len(l) :
         /\ l[i].op = "create_ref" =>
              /\ i = 4
              /\ ReportedNotFound(l[3])
              /\ l[i].name = SourceRef(p)
              /\ l[i].old = ZeroObjectId
              /\ l[i].new = l[2].cur
         /\ l[i].op = "update_ref" =>
              /\ i = 4
              /\ l[3].op = "get_ref" /\ l[3].ok
              /\ l[i].name = SourceRef(p)
              /\ l[i].old = l[3].cur
              /\ l[i].new = l[2].cur

PushRequests(p) == {i \in 1..Len(log[p]) : log[p][i].op = "push"}

\* C13: an invocation issues at most one push request; its body holds one ref
\* update, naming the working-branch ref with oldObjectId = the newObjectId of
\* the ref write the invocation completed just before, which is the base
\* object id it resolved in its second request; and one commit with one file
\* change, the edit of the file to the new content.
C13_OnePushOneCommitOneChange ==
  \A p \in Procs :
    LET l == log[p]
    IN /\ Cardinality(PushRequests(p)) <= 1
       /\ \A i \in PushRequests(p) :
            LET b == l[i].body
            IN /\ Len(b.refUpdates) = 1
               /\ b.refUpdates[1].name = SourceRef(p)
               /\ i > 4
               /\ l[i-1].op \in RefWriteOps /\ l[i-1].ok
               /\ l[i-1].name = SourceRef(p)
               /\ b.refUpdates[1].oldObjectId = l[i-1].new
               /\ b.refUpdates[1].oldObjectId = l[2].cur
               /\ Len(b.commits) = 1
               /\ Len(b.commits[1].changes) = 1
               /\ b.commits[1].changes[1].changeType = "edit"
               /\ b.commits[1].changes[1].content = args[p].new_content

\* An invocation that reset a stale working branch and whose push was applied.
C13_Witness ==
  \E p \in Procs :
    /\ PushRequests(p) # {}
    /\ \E i \in PushRequests(p) :
         /\ log[p][i].ok
         /\ log[p][i-1].op = "update_ref"
         /\ log[p][i-1].old # log[p][i-1].new
         /\ log[p][i].after = Len(commits)

\* The step in which invocation p's push or pull-request request fails.
LateStepFails(p) ==
  /\ pc[p] \in {"push", "create_pr"}
  /\ pc'[p] = "done"
  /\ result'[p].status = "raised"

\* C14: no compensating rollback. The step in which the push is rejected
\* after the branch was created or reset, or the pull request is rejected
\* after the push was applied, is one request that leaves the branches, the
\* commits, the applied pushes and the pull requests as they were; and an
\* invocation that has ended issues no further request.
C14_Step ==
  \A p \in Procs :
    /\ LateStepFails(p) =>
         /\ refs' = refs /\ commits' = commits
         /\ pushes' = pushes /\ prs' = prs
         /\ Len(log'[p]) = Len(log[p]) + 1
    /\ Done(p) => (log'[p] = log[p] /\ pc'[p] = "done")
C14_NoCompensatingRollback == [][C14_Step]_vars

\* An invocation whose pull request was rejected after its push was applied:
\* the working branch still points at the pushed commit, the push is still
\* recorded, and the failed request was the invocation's last.
C14_Witness ==
  \E p \in Procs :
    LET l == log[p]
        n == Len(l)
    IN /\ Done(p) /\ Failed(p)
       /\ n >= 2
       /\ l[n].op = "create_pr" /\ ~l[n].ok
       /\ l[n-1].op = "push" /\ l[n-1].ok
       /\ refs[SourceRef(p)] = l[n-1].after
       /\ \E k \in 1..Len(pushes) : pushes[k].newObjectId = l[n-1].after

\* The two invocations work on the same repository, base and working branch.
SameTarget(p, q) ==
  /\ args[p].repo = args[q].repo
  /\ args[p].base_branch = args[q].base_branch
  /\ args[p].new_branch = args[q].new_branch

\* C15 (as claimed): with the two invocations alone on the repository and
\* working on the same repository, base and working branch, an invocation
\* that returns its result created its pull request while the working
\* branch's tip was the commit it had pushed itself: the branch was neither
\* reset nor pushed to by the other invocation between the two requests.
C15_PrOnOwnCommit ==
  (actorOps = 0 /\ faults = 0) =>
    \A p \in Procs :
      (/\ Done(p) /\ Succeeded(p)
       /\ \A q \in Procs \ {p} : pc[q] # "idle" => SameTarget(p, q))
        => LET l == log[p]
               n == Len(l)
           IN /\ l[n].op = "create_pr" /\ l[n-1].op = "push"
              /\ l[n].cur = l[n-1].after

====
